---- MODULE Spec2Model ----
(***************************************************************************)
(* Model of the localstore auditor (main.go): the eight index codecs, the  *)
(* referential check checkIndexes, the counter-bound check and the         *)
(* content-integrity pass of main, over a store of raw key/value bytes.    *)
(***************************************************************************)
EXTENDS Integers, Sequences, FiniteSets, TLC

(***************************************************************************)
(* Bytes, slices and big-endian words                                      *)
(***************************************************************************)

\* A Go byte slice handed to a decoder: b is the slice (its length is len),
\* extra is what the backing array holds between len and cap.
Slice(b, extra) == [b |-> b, extra |-> extra]

Exact(b) == Slice(b, <<>>)

Cap(v) == Len(v.b) + Len(v.extra)

Backing(v) == v.b \o v.extra

Zeros(n) == [i \in 1..n |-> 0]

\* v[lo:hi]: Go allows hi up to cap(v); the caller checks Cap first.
Sub(v, lo, hi) == SubSeq(Backing(v), lo + 1, hi)

\* copy(dst[lo:hi], src): copies min(hi-lo, len(src)) bytes.
Copy(dst, lo, hi, src) ==
    [i \in 1..Len(dst) |->
        IF i > lo /\ i <= hi /\ i - lo <= Len(src) THEN src[i - lo] ELSE dst[i]]

Pow256(k) == CASE k = 0 -> 1 [] k = 1 -> 256 [] k = 2 -> 65536 [] k = 3 -> 16777216

\* The 8 bytes binary.BigEndian.PutUint64 writes for n, 0 <= n < 2^31.
PutNat64(n) == [i \in 1..8 |-> IF i <= 4 THEN 0 ELSE (n \div Pow256(8 - i)) % 256]

\* binary.BigEndian.PutUint64(b, uint64(v)) for a signed or unsigned v:
\* a negative v is stored in two's complement, the complement of -v-1.
PutUint64(v) ==
    IF v >= 0 THEN PutNat64(v) ELSE [i \in 1..8 |-> 255 - PutNat64(-v - 1)[i]]

\* binary.BigEndian.PutUint32(b, n).
PutUint32(n) == [i \in 1..4 |-> (n \div Pow256(4 - i)) % 256]

LowWord(b) == b[5] * 16777216 + b[6] * 65536 + b[7] * 256 + b[8]

SmallWord(b) == (\A i \in 1..4 : b[i] = 0) /\ b[5] < 128

\* Values of 2^31 and above lie outside the integers TLC represents; the
\* sampled stores never hold one.
OutOfRange == 0 - 2147483647

\* binary.BigEndian.Uint64(b) of 8 bytes.
Uint64(b) == IF SmallWord(b) THEN LowWord(b) ELSE OutOfRange

\* int64(binary.BigEndian.Uint64(b)).
Int64(b) ==
    LET c == [i \in 1..8 |-> 255 - b[i]]
    IN  IF SmallWord(b) THEN LowWord(b)
        ELSE IF SmallWord(c) THEN -LowWord(c) - 1
        ELSE OutOfRange

\* binary.BigEndian.Uint32(b) of 4 bytes (b[1] < 128 in the sampled stores).
Uint32(b) == b[1] * 16777216 + b[2] * 65536 + b[3] * 256 + b[4]

(***************************************************************************)
(* shed.Item and the postage stamp                                         *)
(***************************************************************************)

\* The zero shed.Item; a nil slice and an empty one are both <<>>.
ZeroItem ==
    [Address |-> <<>>, BinID |-> 0, StoreTimestamp |-> 0, AccessTimestamp |-> 0,
     BatchID |-> <<>>, Index |-> <<>>, Timestamp |-> <<>>, Sig |-> <<>>,
     Location |-> <<>>, Tag |-> 0, PinCounter |-> 0]

IndexSize == 8

StampSize == 113

headerSize == 16 + StampSize

\* Results of the codec closures.
Encoded(b) == [err |-> FALSE, b |-> b]

EncodeError == [err |-> TRUE, b |-> <<>>]

Decoded(e) == [panic |-> FALSE, err |-> FALSE, item |-> e]

DecodeError(e) == [panic |-> FALSE, err |-> TRUE, item |-> e]

Panic == [panic |-> TRUE, err |-> FALSE, item |-> ZeroItem]

\* postage.NewStamp(batchID, index, timestamp, sig).MarshalBinary()
StampMarshalBinary(batchID, index, timestamp, sig) ==
    IF Len(batchID) # 32 \/ Len(index) # IndexSize \/ Len(timestamp) # 8 \/ Len(sig) # 65
    THEN EncodeError
    ELSE Encoded(batchID \o index \o timestamp \o sig)

\* (*postage.Stamp).UnmarshalBinary(buf)
StampUnmarshalBinary(buf) ==
    IF Len(buf) # StampSize
    THEN DecodeError(ZeroItem)
    ELSE Decoded([ZeroItem EXCEPT !.BatchID = SubSeq(buf, 1, 32),
                                  !.Index = SubSeq(buf, 33, 40),
                                  !.Timestamp = SubSeq(buf, 41, 48),
                                  !.Sig = SubSeq(buf, 49, 113)])

(***************************************************************************)
(* The codecs of the eight indexes (shed.IndexFuncs closures of main)      *)
(***************************************************************************)

\* retrievalDataIndex: Address->StoreTimestamp|BinID|BatchID|BatchIndex|Sig|Location
retrievalDataIndexEncodeKey(fields) == Encoded(fields.Address)

retrievalDataIndexDecodeKey(key) == Decoded([ZeroItem EXCEPT !.Address = key.b])

retrievalDataIndexEncodeValue(fields) ==
    LET b0 == Zeros(headerSize)
        b1 == Copy(b0, 0, 8, PutUint64(fields.BinID))
        b2 == Copy(b1, 8, 16, PutUint64(fields.StoreTimestamp))
        stamp == StampMarshalBinary(fields.BatchID, fields.Index, fields.Timestamp, fields.Sig)
    IN  IF stamp.err THEN EncodeError
        ELSE Encoded(Copy(b2, 16, headerSize, stamp.b) \o fields.Location)

retrievalDataIndexDecodeValue(value) ==
    IF Cap(value) < 16 THEN Panic                 \* value[8:16]
    ELSE IF Cap(value) < headerSize THEN Panic    \* value[16:headerSize]
    ELSE LET stamp == StampUnmarshalBinary(Sub(value, 16, headerSize))
             e == [ZeroItem EXCEPT !.StoreTimestamp = Int64(Sub(value, 8, 16)),
                                   !.BinID = Uint64(Sub(value, 0, 8))]
         IN  IF stamp.err THEN DecodeError(e)
             ELSE IF Len(value.b) < headerSize THEN Panic   \* value[headerSize:]
             ELSE Decoded([e EXCEPT !.BatchID = stamp.item.BatchID,
                                    !.Index = stamp.item.Index,
                                    !.Timestamp = stamp.item.Timestamp,
                                    !.Sig = stamp.item.Sig,
                                    !.Location = Sub(value, headerSize, Len(value.b))])

\* retrievalAccessIndex: Address->AccessTimestamp
retrievalAccessIndexEncodeKey(fields) == Encoded(fields.Address)

retrievalAccessIndexDecodeKey(key) == Decoded([ZeroItem EXCEPT !.Address = key.b])

retrievalAccessIndexEncodeValue(fields) == Encoded(PutUint64(fields.AccessTimestamp))

retrievalAccessIndexDecodeValue(value) ==
    IF Len(value.b) < 8 THEN Panic                \* Uint64 reads value[7]
    ELSE Decoded([ZeroItem EXCEPT !.AccessTimestamp = Int64(Sub(value, 0, 8))])

\* pullIndex: PO|BinID->Hash
pullIndexEncodeKey(fields) == Encoded(Copy(Zeros(9), 1, 9, PutUint64(fields.BinID)))

\* A decoder that reads the BinID from key[0:8], over the proximity-order byte.
pullIndexDecodeKeyShifted(key) ==
    IF Cap(key) < 9 THEN Panic
    ELSE Decoded([ZeroItem EXCEPT !.BinID = Uint64(Sub(key, 0, 8))])

pullIndexDecodeKey(key) ==
    IF Cap(key) < 9 THEN Panic                    \* key[1:9]
    ELSE Decoded([ZeroItem EXCEPT !.BinID = Uint64(Sub(key, 1, 9))])

pullIndexEncodeValue(fields) ==
    Encoded(Copy(Copy(Zeros(64), 0, 64, fields.Address), 32, 64, fields.BatchID))

pullIndexDecodeValue(value) ==
    IF Cap(value) < 32 THEN Panic                 \* value[:32]
    ELSE IF Cap(value) < 64 THEN Panic            \* value[32:64]
    ELSE Decoded([ZeroItem EXCEPT !.Address = Sub(value, 0, 32),
                                  !.BatchID = Sub(value, 32, 64)])

\* pushIndex: StoreTimestamp|Hash->Tags
pushIndexEncodeKey(fields) ==
    Encoded(Copy(Copy(Zeros(40), 0, 8, PutUint64(fields.StoreTimestamp)), 8, 40, fields.Address))

pushIndexDecodeKey(key) ==
    IF Len(key.b) < 8 THEN Panic                  \* key[8:]
    ELSE Decoded([ZeroItem EXCEPT !.Address = Sub(key, 8, Len(key.b)),
                                  !.StoreTimestamp = Int64(Sub(key, 0, 8))])

pushIndexEncodeValue(fields) == Encoded(PutUint32(fields.Tag))

pushIndexDecodeValue(value) ==
    IF Len(value.b) = 4
    THEN Decoded([ZeroItem EXCEPT !.Tag = Uint32(value.b)])
    ELSE Decoded(ZeroItem)

\* gcIndex: AccessTimestamp|BinID|Hash->BatchID|BatchIndex
gcIndexEncodeKey(fields) ==
    Encoded(Copy(Copy(Zeros(16), 0, 8, PutUint64(fields.AccessTimestamp)),
                 8, 16, PutUint64(fields.BinID)) \o fields.Address)

gcIndexDecodeKey(key) ==
    IF Cap(key) < 8 THEN Panic                    \* key[:8]
    ELSE IF Cap(key) < 16 THEN Panic              \* key[8:16]
    ELSE IF Len(key.b) < 16 THEN Panic            \* key[16:]
    ELSE Decoded([ZeroItem EXCEPT !.AccessTimestamp = Int64(Sub(key, 0, 8)),
                                  !.BinID = Uint64(Sub(key, 8, 16)),
                                  !.Address = Sub(key, 16, Len(key.b))])

gcIndexEncodeValue(fields) ==
    Encoded(Copy(Copy(Zeros(40), 0, 40, fields.BatchID), 32, 40, fields.Index))

gcIndexDecodeValue(value) ==
    IF Cap(value) < 32 THEN Panic                 \* value[:32]
    ELSE IF Len(value.b) < 32 THEN Panic          \* value[32:]
    ELSE Decoded([ZeroItem EXCEPT
            !.BatchID = Copy(Zeros(32), 0, 32, Sub(value, 0, 32)),
            !.Index = Copy(Zeros(IndexSize), 0, IndexSize, Sub(value, 32, Len(value.b)))])

\* pinIndex: Hash->PinCounter
pinIndexEncodeKey(fields) == Encoded(fields.Address)

pinIndexDecodeKey(key) == Decoded([ZeroItem EXCEPT !.Address = key.b])

pinIndexEncodeValue(fields) == Encoded(PutUint64(fields.PinCounter))

pinIndexDecodeValue(value) ==
    IF Cap(value) < 8 THEN Panic                  \* value[:8]
    ELSE Decoded([ZeroItem EXCEPT !.PinCounter = Uint64(Sub(value, 0, 8))])

\* postageChunksIndex: BatchID|PO|Hash->nil
postageChunksIndexEncodeKey(fields) ==
    Encoded(Copy(Copy(Zeros(65), 0, 32, fields.BatchID), 33, 65, fields.Address))

postageChunksIndexDecodeKey(key) ==
    IF Cap(key) < 32 THEN Panic                   \* key[:32]
    ELSE IF Cap(key) < 65 THEN Panic              \* key[33:65]
    ELSE Decoded([ZeroItem EXCEPT !.BatchID = Sub(key, 0, 32),
                                  !.Address = Sub(key, 33, 65)])

postageChunksIndexEncodeValue(fields) == Encoded(<<>>)

postageChunksIndexDecodeValue(value) == Decoded(ZeroItem)

\* postageIndexIndex: BatchID|BatchIndex->Hash|Timestamp
postageIndexIndexEncodeKey(fields) ==
    Encoded(Copy(Copy(Zeros(40), 0, 32, fields.BatchID), 32, 40, fields.Index))

postageIndexIndexDecodeKey(key) ==
    IF Cap(key) < 32 THEN Panic                   \* key[:32]
    ELSE IF Cap(key) < 40 THEN Panic              \* key[32:40]
    ELSE Decoded([ZeroItem EXCEPT !.BatchID = Sub(key, 0, 32),
                                  !.Index = Sub(key, 32, 40)])

postageIndexIndexEncodeValue(fields) ==
    Encoded(Copy(Copy(Zeros(40), 0, 40, fields.Address), 32, 40, fields.Timestamp))

postageIndexIndexDecodeValue(value) ==
    IF Cap(value) < 32 THEN Panic                 \* value[:32]
    ELSE IF Len(value.b) < 32 THEN Panic          \* value[32:]
    ELSE Decoded([ZeroItem EXCEPT !.Address = Sub(value, 0, 32),
                                  !.Timestamp = Sub(value, 32, Len(value.b))])

\* The eight indexes, by the name of the variable that holds each in main.
IndexNames ==
    <<"retrievalDataIndex", "retrievalAccessIndex", "pullIndex", "pushIndex",
      "gcIndex", "pinIndex", "postageChunksIndex", "postageIndexIndex">>

EncodeKey(idx, fields) ==
    CASE idx = "retrievalDataIndex" -> retrievalDataIndexEncodeKey(fields)
      [] idx = "retrievalAccessIndex" -> retrievalAccessIndexEncodeKey(fields)
      [] idx = "pullIndex" -> pullIndexEncodeKey(fields)
      [] idx = "pushIndex" -> pushIndexEncodeKey(fields)
      [] idx = "gcIndex" -> gcIndexEncodeKey(fields)
      [] idx = "pinIndex" -> pinIndexEncodeKey(fields)
      [] idx = "postageChunksIndex" -> postageChunksIndexEncodeKey(fields)
      [] idx = "postageIndexIndex" -> postageIndexIndexEncodeKey(fields)

DecodeKey(idx, key) ==
    CASE idx = "retrievalDataIndex" -> retrievalDataIndexDecodeKey(key)
      [] idx = "retrievalAccessIndex" -> retrievalAccessIndexDecodeKey(key)
      [] idx = "pullIndex" -> pullIndexDecodeKey(key)
      [] idx = "pushIndex" -> pushIndexDecodeKey(key)
      [] idx = "gcIndex" -> gcIndexDecodeKey(key)
      [] idx = "pinIndex" -> pinIndexDecodeKey(key)
      [] idx = "postageChunksIndex" -> postageChunksIndexDecodeKey(key)
      [] idx = "postageIndexIndex" -> postageIndexIndexDecodeKey(key)

EncodeValue(idx, fields) ==
    CASE idx = "retrievalDataIndex" -> retrievalDataIndexEncodeValue(fields)
      [] idx = "retrievalAccessIndex" -> retrievalAccessIndexEncodeValue(fields)
      [] idx = "pullIndex" -> pullIndexEncodeValue(fields)
      [] idx = "pushIndex" -> pushIndexEncodeValue(fields)
      [] idx = "gcIndex" -> gcIndexEncodeValue(fields)
      [] idx = "pinIndex" -> pinIndexEncodeValue(fields)
      [] idx = "postageChunksIndex" -> postageChunksIndexEncodeValue(fields)
      [] idx = "postageIndexIndex" -> postageIndexIndexEncodeValue(fields)

DecodeValue(idx, value) ==
    CASE idx = "retrievalDataIndex" -> retrievalDataIndexDecodeValue(value)
      [] idx = "retrievalAccessIndex" -> retrievalAccessIndexDecodeValue(value)
      [] idx = "pullIndex" -> pullIndexDecodeValue(value)
      [] idx = "pushIndex" -> pushIndexDecodeValue(value)
      [] idx = "gcIndex" -> gcIndexDecodeValue(value)
      [] idx = "pinIndex" -> pinIndexDecodeValue(value)
      [] idx = "postageChunksIndex" -> postageChunksIndexDecodeValue(value)
      [] idx = "postageIndexIndex" -> postageIndexIndexDecodeValue(value)

(***************************************************************************)
(* What each index keys on and stores (the schema strings of sh.NewIndex)  *)
(***************************************************************************)

KeyFields(idx) ==
    CASE idx = "retrievalDataIndex" -> {"Address"}
      [] idx = "retrievalAccessIndex" -> {"Address"}
      [] idx = "pullIndex" -> {"BinID"}
      [] idx = "pushIndex" -> {"StoreTimestamp", "Address"}
      [] idx = "gcIndex" -> {"AccessTimestamp", "BinID", "Address"}
      [] idx = "pinIndex" -> {"Address"}
      [] idx = "postageChunksIndex" -> {"BatchID", "Address"}
      [] idx = "postageIndexIndex" -> {"BatchID", "Index"}

ValueFields(idx) ==
    CASE idx = "retrievalDataIndex" ->
            {"StoreTimestamp", "BinID", "BatchID", "Index", "Timestamp", "Sig", "Location"}
      [] idx = "retrievalAccessIndex" -> {"AccessTimestamp"}
      [] idx = "pullIndex" -> {"Address", "BatchID"}
      [] idx = "pushIndex" -> {"Tag"}
      [] idx = "gcIndex" -> {"BatchID", "Index"}
      [] idx = "pinIndex" -> {"PinCounter"}
      [] idx = "postageChunksIndex" -> {}
      [] idx = "postageIndexIndex" -> {"Address", "Timestamp"}

\* Length of the fixed part of a key: 0 where the key is the bare address.
KeyHeader(idx) ==
    CASE idx = "pullIndex" -> 9
      [] idx = "pushIndex" -> 40
      [] idx = "gcIndex" -> 16
      [] idx = "postageChunksIndex" -> 65
      [] idx = "postageIndexIndex" -> 40
      [] OTHER -> 0

\* Length of the fixed part of a value.
ValueHeader(idx) ==
    CASE idx = "retrievalDataIndex" -> headerSize
      [] idx = "retrievalAccessIndex" -> 8
      [] idx = "pullIndex" -> 64
      [] idx = "pushIndex" -> 4
      [] idx = "gcIndex" -> 40
      [] idx = "pinIndex" -> 8
      [] idx = "postageIndexIndex" -> 40
      [] OTHER -> 0

\* r restricted to the named fields, every other field zero.
Restrict(r, names) ==
    [f \in DOMAIN ZeroItem |-> IF f \in names THEN r[f] ELSE ZeroItem[f]]

(***************************************************************************)
(* Sampled records                                                         *)
(***************************************************************************)

\* Number of distinct byte strings sampled for each byte field.
NumSeeds == 2

\* n bytes, all different from their neighbours and from another seed's.
Bytes(seed, n) == [i \in 1..n |-> (seed * 17 + i * 3) % 256]

UintSamples == {0, 1, 66051, 2147483647}

IntSamples == {-1, 0, 1700000000, -2147483646}

LocationSize == 7

MkItem(a, b, n, t) ==
    [Address |-> Bytes(a, 32), BinID |-> n, StoreTimestamp |-> t,
     AccessTimestamp |-> IF t = 0 THEN 1 ELSE -t,
     BatchID |-> Bytes(b + 1, 32), Index |-> Bytes(a + b, IndexSize),
     Timestamp |-> Bytes(b + 2, 8), Sig |-> Bytes(a + 2, 65),
     Location |-> IF n = 0 THEN <<>> ELSE Bytes(a, LocationSize),
     Tag |-> IF n = 0 THEN 1 ELSE n - 1, PinCounter |-> 2147483647 - n]

SampleItems ==
    {MkItem(a, b, n, t) : a \in 1..NumSeeds, b \in 1..NumSeeds,
                          n \in UintSamples, t \in IntSamples}

(***************************************************************************)
(* 64-bit counters as machine words (8 bytes, most significant first)      *)
(***************************************************************************)

RECURSIVE CarryInto(_, _, _)
\* The carry into byte i of a + b.
CarryInto(a, b, i) ==
    IF i = 8 THEN 0 ELSE (a[i + 1] + b[i + 1] + CarryInto(a, b, i + 1)) \div 256

\* gcCnt+rsvCnt: uint64 addition, which wraps at 2^64.
AddUint64(a, b) == [i \in 1..8 |-> (a[i] + b[i] + CarryInto(a, b, i)) % 256]

\* The bit the wrapped sum loses.
CarryOut(a, b) == CarryInto(a, b, 0)

\* int(w) > n for an int n >= 0: the conversion keeps the 64 bits, so a word
\* with the top bit set is negative.
IntGreater(w, n) == w[1] < 128 /\ (~SmallWord(w) \/ LowWord(w) > n)

\* a + b > n over the naturals.
SumExceeds(a, b, n) ==
    \/ CarryOut(a, b) = 1
    \/ ~SmallWord(AddUint64(a, b))
    \/ LowWord(AddUint64(a, b)) > n

MaxWord == [i \in 1..8 |-> 255]

TopBitWord == [i \in 1..8 |-> IF i = 1 THEN 128 ELSE 0]

(***************************************************************************)
(* The store on disk: schema, counters, indexes, blob store                *)
(***************************************************************************)

DBSchemaCurrent == "localstore.DBSchemaCurrent"

\* Keys compare bytewise, as the ordered engine orders them.
KeyLess(a, b) ==
    \E k \in 1..(Len(a) + 1) :
        /\ \A i \in 1..(k - 1) : i <= Len(b) /\ a[i] = b[i]
        /\ k <= Len(b)
        /\ (k = Len(a) + 1 \/ a[k] < b[k])

RECURSIVE Ordered(_)
\* The entries of an index in ascending key order.
Ordered(entries) ==
    IF entries = {} THEN <<>>
    ELSE LET first == CHOOSE e \in entries :
                          \A o \in entries : o = e \/ KeyLess(e.key, o.key)
         IN  <<first>> \o Ordered(entries \ {first})

\* sharky.Location: shard (1 byte), slot (4 bytes) and length (2 bytes),
\* least significant byte first.
LocationMarshalBinary(l) ==
    <<l.Shard, l.Slot % 256, (l.Slot \div 256) % 256, (l.Slot \div 65536) % 256, 0,
      l.Length % 256, l.Length \div 256>>

\* sharky.LocationFromBinary(buf): a Location or an error. The error is the
\* library's; it is taken to meet a buffer that is not a whole location.
LocationFromBinary(buf) ==
    IF Len(buf) # LocationSize
    THEN [err |-> TRUE, l |-> [Shard |-> 0, Slot |-> 0, Length |-> 0]]
    ELSE [err |-> FALSE,
          l |-> [Shard |-> buf[1],
                 Slot |-> buf[2] + buf[3] * 256 + buf[4] * 65536,
                 Length |-> buf[6] + buf[7] * 256]]

\* Number of addresses the sampled stores draw their chunks from.
NumAddrs == 2

Addr(i) == Bytes(i, 32)

\* What the store's writer recorded for chunk i. The gc index orders by
\* access time, which runs against the address order.
ChunkItem(i, location) ==
    [Address |-> Addr(i), BinID |-> i, StoreTimestamp |-> 1000 + i,
     AccessTimestamp |-> 2000 - i,
     BatchID |-> Bytes(3, 32), Index |-> Bytes(i, IndexSize),
     Timestamp |-> Bytes(4, 8), Sig |-> Bytes(5, 65),
     Location |-> location, Tag |-> i, PinCounter |-> 1]

ChunkLocation(i) == [Shard |-> i % 32, Slot |-> 256 + i, Length |-> 4096]

\* How chunk i sits in the store: "cac" and "soc" are valid under one scheme,
\* "corrupt" under neither, "badloc" has a truncated location, "readerr" a
\* location the blob store cannot read.
Kinds == {"cac", "soc", "corrupt", "badloc", "readerr"}

LocationBytes(i, kind) ==
    IF kind = "badloc" THEN SubSeq(LocationMarshalBinary(ChunkLocation(i)), 1, 3)
    ELSE LocationMarshalBinary(ChunkLocation(i))

\* An entry as the writer's codec laid it out; of is the chunk it was written
\* for and kind how that chunk sits in the store.
Entry(idx, i, kind) ==
    LET r == ChunkItem(i, LocationBytes(i, kind))
    IN  [key |-> EncodeKey(idx, r).b, value |-> EncodeValue(idx, r).b,
         of |-> i, kind |-> kind]

\* The blob a location holds: the address its bytes hash to under the
\* content-addressed scheme and the address its owner, identifier and
\* signature derive under the single-owner scheme (<<>>: none of the store's).
Blob(i, kind) ==
    [Shard |-> ChunkLocation(i).Shard, Slot |-> ChunkLocation(i).Slot,
     cac |-> IF kind = "cac" THEN Addr(i) ELSE <<>>,
     soc |-> IF kind = "soc" THEN Addr(i) ELSE <<>>]

\* cac.Valid(ch) and soc.Valid(ch) for ch = swarm.NewChunk(address, data).
cacValid(address, data) == data.cac = address

socValid(address, data) == data.soc = address

\* sharky.New(sharkyBase, 32, swarm.SocMaxChunkSize)
ShardCnt == 32

\* The files the blob store opens through its base directory, in order.
ShardFiles(n) == [j \in 1..(2 * n) |->
    IF j % 2 = 1 THEN <<"shard", (j - 1) \div 2>> ELSE <<"free", (j - 1) \div 2>>]

Range(q) == {q[j] : j \in DOMAIN q}

Secondaries == SubSeq(IndexNames, 2, 8)

\* The engine or lookup failure a run meets, if any: the iteration of idx
\* fails when it fetches entry at (or, past the last entry, when it ends), or
\* the Has lookup for entry at of idx fails.
NoFault == [kind |-> "none", idx |-> "", at |-> 0]

IterFault(idx, at) == [kind |-> "iter", idx |-> idx, at |-> at]

HasFault(idx, at) == [kind |-> "has", idx |-> idx, at |-> at]

\* A store: primary maps the chunks of the primary index to how each sits in
\* the store, secondary is the set of chunks every secondary index holds.
Store(primary, secondary, gc, rsv, schema, missing, fault) ==
    [primary |-> primary, secondary |-> secondary, gc |-> gc, rsv |-> rsv,
     schema |-> schema, missing |-> missing, fault |-> fault]

AllCac(ids) == [i \in ids |-> "cac"]

\* Stores whose secondary indexes hold any chunks, present in the primary
\* index or not, with at most one engine or lookup failure.
RefStores ==
    {Store(AllCac(P), S, PutNat64(0), PutNat64(0), DBSchemaCurrent, {}, f) :
        P \in SUBSET (1..NumAddrs), S \in SUBSET (1..NumAddrs),
        f \in {NoFault}
              \cup {IterFault(Secondaries[k], at) : k \in 1..7, at \in 1..(NumAddrs + 1)}
              \cup {HasFault(Secondaries[k], at) : k \in 1..7, at \in 1..NumAddrs}}

\* Stores whose primary chunks sit in every way, the secondary indexes
\* consistent with the primary one.
ContentStores ==
    {Store(pr, DOMAIN pr, PutNat64(0), PutNat64(0), DBSchemaCurrent, {}, f) :
        pr \in UNION {[P -> Kinds] : P \in SUBSET (1..NumAddrs)},
        f \in {NoFault} \cup {IterFault("retrievalDataIndex", at) : at \in 1..(NumAddrs + 1)}}

WordSamples ==
    {PutNat64(0), PutNat64(3), PutNat64(5), PutNat64(6), TopBitWord, MaxWord}

CountSamples == {0, 1, 10}

\* Stores whose counters take any sampled value.
CounterStores ==
    {Store(AllCac(1..c), {}, gc, rsv, DBSchemaCurrent, {}, NoFault) :
        c \in CountSamples, gc \in WordSamples, rsv \in WordSamples}

\* Stores of another schema, or with shard files missing.
OtherStores ==
    {Store(AllCac({1}), {1}, PutNat64(0), PutNat64(0), schema, missing, NoFault) :
        schema \in {DBSchemaCurrent, "other"},
        missing \in {{}, {<<"shard", 0>>}, {<<"free", ShardCnt - 1>>, <<"shard", 7>>}}}

\* A fault names an entry the index has (or its end).
Stores ==
    {st \in RefStores \cup ContentStores \cup CounterStores \cup OtherStores :
        \/ st.fault.kind = "none"
        \/ st.fault.kind = "iter" /\ st.fault.idx = "retrievalDataIndex"
             /\ st.fault.at <= Cardinality(DOMAIN st.primary) + 1
        \/ st.fault.kind = "iter" /\ st.fault.idx # "retrievalDataIndex"
             /\ st.fault.at <= Cardinality(st.secondary) + 1
        \/ st.fault.kind = "has" /\ st.fault.at <= Cardinality(st.secondary)}

IndexEntries(st, idx) ==
    IF idx = "retrievalDataIndex"
    THEN Ordered({Entry(idx, i, st.primary[i]) : i \in DOMAIN st.primary})
    ELSE Ordered({Entry(idx, i, "cac") : i \in st.secondary})

(***************************************************************************)
(* State                                                                   *)
(***************************************************************************)

VARIABLES
    pc,               \* where main stands
    stdout,           \* what main has printed, a tag per line
    shedOpened,       \* shed.NewDB calls that returned a DB
    shedClosed,       \* sh.Close() calls
    sharkyOpened,     \* sharky.New calls that returned a Store
    sharkyClosed,     \* sharkyStore.Close() calls
    files,            \* the files of the sharky directory
    fields,           \* the DB's fields: schema-name, gc-size, reserve-size
    db,               \* the DB's indexes: name -> entries in key order
    blobs,            \* the blobs the sharky shards hold
    fault,            \* the failure this run meets
    scan,             \* the index being iterated, as a position in IndexNames
    pos,              \* the next entry of the iteration
    msgs,             \* checkIndexes' msgs
    inconsistencies,  \* main's inconsistencies
    corruptions,      \* main's corruptions
    reads,            \* the locations read from the blob store, in order
    codecOp,          \* codec exercise: the operation applied
    codecIdx,         \* codec exercise: the index whose codec is applied
    codecItem,        \* codec exercise: the record encoded
    codecIn,          \* codec exercise: the bytes handed to the decoder
    codecOut          \* codec exercise: what the decoder returned

storeVars == <<files, fields, db, blobs, fault>>

runVars ==
    <<pc, stdout, shedOpened, shedClosed, sharkyOpened, sharkyClosed,
      scan, pos, msgs, inconsistencies, corruptions, reads>>

codecVars == <<codecOp, codecIdx, codecItem, codecIn, codecOut>>

vars == <<storeVars, runVars, codecVars>>

CodecIdle ==
    /\ codecOp = "none"
    /\ codecIdx = ""
    /\ codecItem = ZeroItem
    /\ codecIn = Exact(<<>>)
    /\ codecOut = Decoded(ZeroItem)

InitStore(st) ==
    /\ files = Range(ShardFiles(ShardCnt)) \ st.missing
    /\ fields = [schemaName |-> st.schema, gcSize |-> st.gc, reserveSize |-> st.rsv]
    /\ db = [idx \in Range(IndexNames) |-> IndexEntries(st, idx)]
    /\ blobs = {Blob(i, st.primary[i]) :
                    i \in {j \in DOMAIN st.primary : st.primary[j] # "readerr"}}
    /\ fault = st.fault

InitRun ==
    /\ pc = "start"
    /\ stdout = <<>>
    /\ shedOpened = 0
    /\ shedClosed = 0
    /\ sharkyOpened = 0
    /\ sharkyClosed = 0
    /\ scan = 0
    /\ pos = 0
    /\ msgs = <<>>
    /\ inconsistencies = <<>>
    /\ corruptions = <<>>
    /\ reads = <<>>

Init ==
    /\ \E st \in Stores : InitStore(st)
    /\ InitRun
    /\ CodecIdle

(***************************************************************************)
(* The engine as main uses it                                              *)
(***************************************************************************)

\* (*dirFS).Open(path): os.OpenFile with O_RDWR|O_CREATE, which creates the
\* file when the directory has none of that name.
dirFSOpen(dir, path) == dir \cup {path}

\* shed's Item.Merge: a field of the value fills a field the key left zero.
Merge(k, v) == [f \in DOMAIN ZeroItem |-> IF k[f] = ZeroItem[f] THEN v[f] ELSE k[f]]

\* shed's itemFromIterator: the decoded key merged with the decoded value.
itemFromIterator(idx, entry) ==
    LET k == DecodeKey(idx, Exact(entry.key))
        v == DecodeValue(idx, Exact(entry.value))
    IN  IF k.panic \/ v.panic THEN Panic
        ELSE IF k.err THEN DecodeError(k.item)
        ELSE IF v.err THEN DecodeError(v.item)
        ELSE Decoded(Merge(k.item, v.item))

\* The iteration of idx fails as it fetches entry p.
IterateFails(idx, p) == fault.kind = "iter" /\ fault.idx = idx /\ fault.at = p

\* dstIdx.Has(item) while the source iteration stands at entry p of srcIdx:
\* a point lookup of the destination's key for item.
Has(dstIdx, item, srcIdx, p) ==
    [err |-> fault.kind = "has" /\ fault.idx = srcIdx /\ fault.at = p,
     exists |-> \E e \in Range(db[dstIdx]) : e.key = EncodeKey(dstIdx, item).b]

\* sharkyStore.Read(ctx, l, data)
sharkyRead(l) ==
    IF \E bl \in blobs : bl.Shard = l.Shard /\ bl.Slot = l.Slot
    THEN [err |-> FALSE,
          data |-> CHOOSE bl \in blobs : bl.Shard = l.Shard /\ bl.Slot = l.Slot]
    ELSE [err |-> TRUE, data |-> [Shard |-> l.Shard, Slot |-> l.Slot, cac |-> <<>>, soc |-> <<>>]]

(***************************************************************************)
(* Messages and printed lines                                              *)
(***************************************************************************)

srcStr(k) ==
    <<"", "retrievalAccessIdx", "pullIdx", "pushIdx", "gcIdx", "pinIdx",
      "postageChunksIdx", "postageIndexIdx">>[k]

dstStr == "retrievalDataIndex"

MissingMsg(src, dst, address) ==
    [fmt |-> "item in %s and not in %s %s", src |-> src, dst |-> dst, address |-> address]

CriticalMsg(src) == [fmt |-> "CRITICAL: failed checking %s index", src |-> src]

CounterMsg(sum, chunkCnt) ==
    [fmt |-> "gcSize+reserveSize(%d) > chunkCount(%d)", sum |-> sum, chunkCnt |-> chunkCnt]

LocationMsg(address) ==
    [fmt |-> "invalid sharky location for item %s err: %v", address |-> address,
     err |-> "location"]

ReadMsg == [fmt |-> "cannot read location from sharky %v", err |-> "read"]

CorruptionMsg(address) == [fmt |-> "address %s", address |-> address]

Line(text) == [fmt |-> text]

(***************************************************************************)
(* The callbacks                                                           *)
(***************************************************************************)

\* A callback that reports absence only, taking a failed lookup for a hit.
checkIndexesVisitIgnoringErr(ms, has, src, dst, item) ==
    [stop |-> FALSE,
     msgs |-> IF ~has.err /\ ~has.exists
              THEN Append(ms, MissingMsg(src, dst, item.Address))
              ELSE ms]

\* The callback of checkIndexes: what it leaves in msgs, and whether it stops
\* the iteration.
checkIndexesVisit(ms, has, src, dst, item) ==
    [stop |-> FALSE,
     msgs |-> IF has.err \/ ~has.exists
              THEN Append(ms, MissingMsg(src, dst, item.Address))
              ELSE ms]

\* checkIndexes after the iteration returned err.
checkIndexesReturn(ms, err, src) ==
    IF err THEN Append(ms, CriticalMsg(src)) ELSE ms

\* int(gcCnt+rsvCnt) > chunkCnt
counterCheck(incs, gcCnt, rsvCnt, chunkCnt) ==
    IF IntGreater(AddUint64(gcCnt, rsvCnt), chunkCnt)
    THEN Append(incs, CounterMsg(AddUint64(gcCnt, rsvCnt), chunkCnt))
    ELSE incs

\* A callback that stops the iteration at an undecodable location.
onLocationErrorStopping(incs, item) ==
    [stop |-> TRUE, inconsistencies |-> Append(incs, LocationMsg(item.Address))]

\* The content callback when sharky.LocationFromBinary fails.
onLocationError(incs, item) ==
    [stop |-> FALSE, inconsistencies |-> Append(incs, LocationMsg(item.Address))]

\* The content callback when sharkyStore.Read fails.
onReadError(incs, item) ==
    [stop |-> FALSE, inconsistencies |-> Append(incs, ReadMsg)]

\* A callback that tries the content-addressed scheme alone.
onChunkCacOnly(corrs, address, data) ==
    [stop |-> FALSE,
     corruptions |-> IF ~cacValid(address, data)
                     THEN Append(corrs, CorruptionMsg(address))
                     ELSE corrs]

\* The content callback on the chunk read.
onChunk(corrs, address, data) ==
    [stop |-> FALSE,
     corruptions |-> IF ~cacValid(address, data) /\ ~socValid(address, data)
                     THEN Append(corrs, CorruptionMsg(address))
                     ELSE corrs]

\* The callback main hands to retrievalDataIndex.Iterate.
contentVisit(incs, corrs, rd, item) ==
    LET l == LocationFromBinary(item.Location)
        r == sharkyRead(l.l)
    IN  IF l.err
        THEN [stop |-> onLocationError(incs, item).stop,
              inconsistencies |-> onLocationError(incs, item).inconsistencies,
              corruptions |-> corrs, reads |-> rd]
        ELSE IF r.err
        THEN [stop |-> onReadError(incs, item).stop,
              inconsistencies |-> onReadError(incs, item).inconsistencies,
              corruptions |-> corrs, reads |-> Append(rd, l.l)]
        ELSE [stop |-> onChunk(corrs, item.Address, r.data).stop,
              inconsistencies |-> incs,
              corruptions |-> onChunk(corrs, item.Address, r.data).corruptions,
              reads |-> Append(rd, l.l)]

\* The report main prints after the checks.
reportLines(incs, corrs) ==
    <<Line("Check complete")>>
    \o (IF Len(incs) > 0
        THEN <<[fmt |-> "Found %d inconsistencies in indexes\n", n |-> Len(incs)]>>
             \o [j \in 1..Len(incs) |-> [fmt |-> "INCONSISTENCY: %s\n", v |-> incs[j]]]
        ELSE <<>>)
    \o (IF Len(corrs) > 0
        THEN <<[fmt |-> "Found %d data corruptions\n", n |-> Len(corrs)]>>
             \o [j \in 1..Len(corrs) |-> [fmt |-> "DATA CORRUPTION: %s\n", v |-> corrs[j]]]
        ELSE <<>>)
    \o (IF Len(corrs) = 0 /\ Len(incs) = 0
        THEN <<Line("No inconsistencies or corruptions found")>>
        ELSE <<>>)

(***************************************************************************)
(* main, step by step                                                      *)
(***************************************************************************)

\* A return of main before defer sh.Close() is reached.
ReturnEarly(line) ==
    /\ pc' = "done"
    /\ stdout' = Append(stdout, Line(line))
    /\ shedClosed' = shedClosed

\* A return of main after defer sh.Close(): the deferred call runs.
Return(lines) ==
    /\ pc' = "done"
    /\ stdout' = stdout \o lines
    /\ shedClosed' = shedClosed + 1

\* os.Stat(*path)
StatPath ==
    /\ pc = "start"
    /\ \E exists \in BOOLEAN :
        IF exists
        THEN pc' = "NewDB" /\ UNCHANGED <<stdout, shedClosed>>
        ELSE ReturnEarly("path should be full path to localstore directory")
    /\ UNCHANGED <<storeVars, codecVars, shedOpened, sharkyOpened, sharkyClosed,
                   scan, pos, msgs, inconsistencies, corruptions, reads>>

\* sh, err := shed.NewDB(*path, nil); defer sh.Close()
NewDB ==
    /\ pc = "NewDB"
    /\ \E ok \in BOOLEAN :
        IF ok
        THEN /\ pc' = "statSharky"
             /\ shedOpened' = shedOpened + 1
             /\ UNCHANGED <<stdout, shedClosed>>
        ELSE /\ ReturnEarly("failed initializing shed %v\n")
             /\ UNCHANGED shedOpened
    /\ UNCHANGED <<storeVars, codecVars, sharkyOpened, sharkyClosed,
                   scan, pos, msgs, inconsistencies, corruptions, reads>>

\* os.Stat(sharkyBasePath)
StatSharky ==
    /\ pc = "statSharky"
    /\ \E exists \in BOOLEAN :
        IF exists
        THEN pc' = "sharkyNew" /\ UNCHANGED <<stdout, shedClosed>>
        ELSE Return(<<Line("sharky directory missing")>>)
    /\ UNCHANGED <<storeVars, codecVars, shedOpened, sharkyOpened, sharkyClosed,
                   scan, pos, msgs, inconsistencies, corruptions, reads>>

RECURSIVE OpenAll(_, _, _)
\* The directory after the first n files of q were opened through dirFS.
OpenAll(dir, q, n) ==
    IF n = 0 THEN dir ELSE dirFSOpen(OpenAll(dir, q, n - 1), q[n])

\* sharky.New(sharkyBase, 32, swarm.SocMaxChunkSize): opens the files of every
\* shard through sharkyBase; n of them open before one fails, or all do.
SharkyNew ==
    /\ pc = "sharkyNew"
    /\ \E n \in 0..(2 * ShardCnt) :
        /\ files' = OpenAll(files, ShardFiles(ShardCnt), n)
        /\ IF n = 2 * ShardCnt
           THEN /\ pc' = "schemaName"
                /\ sharkyOpened' = sharkyOpened + 1
                /\ UNCHANGED <<stdout, shedClosed>>
           ELSE /\ Return(<<Line("failed initializing sharky %v\n")>>)
                /\ UNCHANGED sharkyOpened
    /\ UNCHANGED <<fields, db, blobs, fault, codecVars, shedOpened, sharkyClosed,
                   scan, pos, msgs, inconsistencies, corruptions, reads>>

\* sh.NewStringField("schema-name"), schemaName.Get() and the comparison
\* with localstore.DBSchemaCurrent.
SchemaName ==
    /\ pc = "schemaName"
    /\ \/ Return(<<Line("failed initializing sharky %v\n")>>)
       \/ Return(<<Line("failed reading schema %v\n")>>)
       \/ /\ fields.schemaName # DBSchemaCurrent
          /\ Return(<<Line("incorrect schema, needs %s\n")>>)
       \/ /\ fields.schemaName = DBSchemaCurrent
          /\ pc' = "gcSize"
          /\ UNCHANGED <<stdout, shedClosed>>
    /\ UNCHANGED <<storeVars, codecVars, shedOpened, sharkyOpened, sharkyClosed,
                   scan, pos, msgs, inconsistencies, corruptions, reads>>

\* sh.NewUint64Field("gc-size") and sh.NewUint64Field("reserve-size")
CounterFields ==
    /\ pc = "gcSize"
    /\ \/ Return(<<Line("failed reading gc-size %v\n")>>) /\ UNCHANGED scan
       \/ Return(<<Line("failed reading reserveSize %v\n")>>) /\ UNCHANGED scan
       \/ pc' = "NewIndex" /\ scan' = 1 /\ UNCHANGED <<stdout, shedClosed>>
    /\ UNCHANGED <<storeVars, codecVars, shedOpened, sharkyOpened, sharkyClosed,
                   pos, msgs, inconsistencies, corruptions, reads>>

\* sh.NewIndex(...) for the index at scan; after the last, the banner.
NewIndex ==
    /\ pc = "NewIndex"
    /\ \/ /\ Return(<<Line("failed initializing index %v\n")>>)
          /\ UNCHANGED <<scan, pos>>
       \/ /\ scan < 8
          /\ scan' = scan + 1
          /\ UNCHANGED <<pc, stdout, shedClosed, pos>>
       \/ /\ scan = 8
          /\ pc' = "checkIndexes"
          /\ scan' = 2
          /\ pos' = 1
          /\ stdout' = Append(stdout, Line("Starting check for localstore at %s...\n"))
          /\ UNCHANGED shedClosed
    /\ UNCHANGED <<storeVars, codecVars, shedOpened, sharkyOpened, sharkyClosed,
                   msgs, inconsistencies, corruptions, reads>>

\* A panic unwinds main: the deferred sh.Close() runs and the process dies.
Panics ==
    /\ pc' = "panicked"
    /\ shedClosed' = shedClosed + 1

\* srcIdx.Iterate hands one entry to the callback of checkIndexes.
CheckVisit ==
    /\ pc = "checkIndexes"
    /\ pos <= Len(db[IndexNames[scan]])
    /\ ~IterateFails(IndexNames[scan], pos)
    /\ LET idx == IndexNames[scan]
           it == itemFromIterator(idx, db[idx][pos])
           has == Has("retrievalDataIndex", it.item, idx, pos)
           r == checkIndexesVisit(msgs, has, srcStr(scan), dstStr, it.item)
       IN  IF it.panic
           THEN Panics /\ UNCHANGED <<msgs, pos>>
           ELSE /\ msgs' = r.msgs
                /\ pos' = IF r.stop \/ it.err THEN Len(db[idx]) + 1 ELSE pos + 1
                /\ UNCHANGED <<pc, shedClosed>>
    /\ UNCHANGED <<storeVars, codecVars, stdout, shedOpened, sharkyOpened, sharkyClosed,
                   scan, inconsistencies, corruptions, reads>>

\* srcIdx.Iterate returns, checkIndexes returns msgs and main appends them.
CheckReturn ==
    /\ pc = "checkIndexes"
    /\ pos > Len(db[IndexNames[scan]]) \/ IterateFails(IndexNames[scan], pos)
    /\ inconsistencies' = inconsistencies
            \o checkIndexesReturn(msgs, IterateFails(IndexNames[scan], pos), srcStr(scan))
    /\ msgs' = <<>>
    /\ IF scan < 8
       THEN scan' = scan + 1 /\ pos' = 1 /\ pc' = pc
       ELSE scan' = 1 /\ pos' = 1 /\ pc' = "counters"
    /\ UNCHANGED <<storeVars, codecVars, stdout, shedOpened, shedClosed, sharkyOpened,
                   sharkyClosed, corruptions, reads>>

\* gcSize.Get(), reserveSize.Get(), retrievalDataIndex.Count() and the bound.
CounterCheck ==
    /\ pc = "counters"
    /\ inconsistencies' = counterCheck(inconsistencies, fields.gcSize, fields.reserveSize,
                                       Len(db["retrievalDataIndex"]))
    /\ pc' = "content"
    /\ UNCHANGED <<storeVars, codecVars, stdout, shedOpened, shedClosed, sharkyOpened,
                   sharkyClosed, scan, pos, msgs, corruptions, reads>>

\* retrievalDataIndex.Iterate hands one entry to the content callback.
ContentVisit ==
    /\ pc = "content"
    /\ pos <= Len(db["retrievalDataIndex"])
    /\ ~IterateFails("retrievalDataIndex", pos)
    /\ LET it == itemFromIterator("retrievalDataIndex", db["retrievalDataIndex"][pos])
           r == contentVisit(inconsistencies, corruptions, reads, it.item)
       IN  IF it.panic
           THEN Panics /\ UNCHANGED <<inconsistencies, corruptions, reads, pos>>
           ELSE /\ inconsistencies' = r.inconsistencies
                /\ corruptions' = r.corruptions
                /\ reads' = r.reads
                /\ pos' = IF r.stop \/ it.err
                          THEN Len(db["retrievalDataIndex"]) + 1 ELSE pos + 1
                /\ UNCHANGED <<pc, shedClosed>>
    /\ UNCHANGED <<storeVars, codecVars, stdout, shedOpened, sharkyOpened, sharkyClosed,
                   scan, msgs>>

\* retrievalDataIndex.Iterate returns; main assigns its error to err and
\* goes on to the report without reading it.
ContentReturn ==
    /\ pc = "content"
    /\ pos > Len(db["retrievalDataIndex"]) \/ IterateFails("retrievalDataIndex", pos)
    /\ pc' = "report"
    /\ UNCHANGED <<storeVars, codecVars, stdout, shedOpened, shedClosed, sharkyOpened,
                   sharkyClosed, scan, pos, msgs, inconsistencies, corruptions, reads>>

\* The report, and main's return.
Report ==
    /\ pc = "report"
    /\ Return(reportLines(inconsistencies, corruptions))
    /\ UNCHANGED <<storeVars, codecVars, shedOpened, sharkyOpened, sharkyClosed,
                   scan, pos, msgs, inconsistencies, corruptions, reads>>

Next ==
    \/ StatPath
    \/ NewDB
    \/ StatSharky
    \/ SharkyNew
    \/ SchemaName
    \/ CounterFields
    \/ NewIndex
    \/ CheckVisit
    \/ CheckReturn
    \/ CounterCheck
    \/ ContentVisit
    \/ ContentReturn
    \/ Report

Spec == Init /\ [][Next]_vars

(***************************************************************************)
(* The codecs applied to sampled records and to truncated keys and values  *)
(***************************************************************************)

\* Bytes the backing array of a truncated key or value may hold past its end.
SpareCap == 200

ShortLens(header) == {0, header \div 2, header - 1}

EmptyStore == Store(AllCac({}), {}, PutNat64(0), PutNat64(0), DBSchemaCurrent, {}, NoFault)

CodecInit ==
    /\ InitStore(EmptyStore)
    /\ InitRun
    /\ codecOp = "none"
    /\ codecIdx = ""
    /\ codecItem \in SampleItems
    /\ codecIn = Exact(<<>>)
    /\ codecOut = Decoded(ZeroItem)

\* DecodeKey(EncodeKey(r))
RoundTripKey ==
    /\ codecOp = "none"
    /\ \E idx \in Range(IndexNames) :
        /\ codecIdx' = idx
        /\ codecIn' = Exact(EncodeKey(idx, codecItem).b)
        /\ codecOut' = IF EncodeKey(idx, codecItem).err THEN DecodeError(ZeroItem)
                       ELSE DecodeKey(idx, Exact(EncodeKey(idx, codecItem).b))
    /\ codecOp' = "key"
    /\ UNCHANGED <<storeVars, runVars, codecItem>>

\* DecodeValue(EncodeValue(r))
RoundTripValue ==
    /\ codecOp = "none"
    /\ \E idx \in Range(IndexNames) :
        /\ codecIdx' = idx
        /\ codecIn' = Exact(EncodeValue(idx, codecItem).b)
        /\ codecOut' = IF EncodeValue(idx, codecItem).err THEN DecodeError(ZeroItem)
                       ELSE DecodeValue(idx, Exact(EncodeValue(idx, codecItem).b))
    /\ codecOp' = "value"
    /\ UNCHANGED <<storeVars, runVars, codecItem>>

\* DecodeKey of a key cut short of the index's fixed key length, in a backing
\* array that ends with the key or runs on.
DecodeShortKey ==
    /\ codecOp = "none"
    /\ \E idx \in Range(IndexNames) :
       \E n \in ShortLens(KeyHeader(idx)) :
       \E extra \in {<<>>, Zeros(SpareCap)} :
        /\ 0 <= n /\ n < KeyHeader(idx)
        /\ codecIdx' = idx
        /\ codecIn' = Slice(SubSeq(EncodeKey(idx, codecItem).b, 1, n), extra)
        /\ codecOut' = DecodeKey(idx, Slice(SubSeq(EncodeKey(idx, codecItem).b, 1, n), extra))
    /\ codecOp' = "shortKey"
    /\ UNCHANGED <<storeVars, runVars, codecItem>>

\* DecodeValue of a value cut short of the index's fixed value length.
DecodeShortValue ==
    /\ codecOp = "none"
    /\ \E idx \in Range(IndexNames) :
       \E n \in ShortLens(ValueHeader(idx)) :
       \E extra \in {<<>>, Zeros(SpareCap)} :
        /\ 0 <= n /\ n < ValueHeader(idx)
        /\ codecIdx' = idx
        /\ codecIn' = Slice(SubSeq(EncodeValue(idx, codecItem).b, 1, n), extra)
        /\ codecOut' = DecodeValue(idx, Slice(SubSeq(EncodeValue(idx, codecItem).b, 1, n), extra))
    /\ codecOp' = "shortValue"
    /\ UNCHANGED <<storeVars, runVars, codecItem>>

CodecNext ==
    \/ RoundTripKey
    \/ RoundTripValue
    \/ DecodeShortKey
    \/ DecodeShortValue

CodecSpec == CodecInit /\ [][CodecNext]_vars

(***************************************************************************)
(* Properties                                                              *)
(***************************************************************************)

\* main reached its report.
Reported == \E j \in DOMAIN stdout : stdout[j].fmt = "Check complete"

\* The referential check of the index at k has returned.
CheckDone(k) ==
    \/ pc = "checkIndexes" /\ scan > k
    \/ pc \in {"counters", "content", "report"}
    \/ pc = "done" /\ Reported

\* The content pass has returned.
ContentDone == pc = "report" \/ (pc = "done" /\ Reported)

\* The positions of q, ascending, whose entries satisfy Test.
Positions(q, Test(_)) == SelectSeq([j \in 1..Len(q) |-> j], Test)

Count(q, Test(_)) == Cardinality({j \in DOMAIN q : Test(q[j])})

\* The chunk of an entry has an entry in the primary index.
InPrimary(e) == \E p \in Range(db["retrievalDataIndex"]) : p.of = e.of

\* What check k must report: one message per entry of the source, in key
\* order, whose chunk the primary index lacks or whose lookup failed.
ExpectedViolations(k) ==
    LET q == db[IndexNames[k]]
        bad == Positions(q, LAMBDA j :
                   \/ ~InPrimary(q[j])
                   \/ fault.kind = "has" /\ fault.idx = IndexNames[k] /\ fault.at = j)
    IN  [n \in 1..Len(bad) |-> MissingMsg(srcStr(k), "retrievalDataIndex", Addr(q[bad[n]].of))]

\* The messages check k contributed to inconsistencies.
ViolationsOf(k) ==
    SelectSeq(inconsistencies, LAMBDA m :
        /\ m.fmt \in {"item in %s and not in %s %s", "CRITICAL: failed checking %s index"}
        /\ m.src = srcStr(k))

\* C1: every referential check whose source iteration does not fail returns
\* exactly one message per source entry, in source key order, whose address
\* the primary index lacks or fails to look up, naming that address and the
\* (source, destination) pair.
ReferentialCheckExact ==
    \A k \in 2..8 :
        (CheckDone(k) /\ ~(fault.kind = "iter" /\ fault.idx = IndexNames[k]))
            => ViolationsOf(k) = ExpectedViolations(k)

\* C1 witness: the pull index holds two chunks, the primary index only the
\* second, and the finished audit reports exactly the first for pullIdx.
ReferentialCheckWitness ==
    /\ pc = "done" /\ Reported /\ fault.kind = "none"
    /\ Len(db["pullIndex"]) = 2
    /\ Len(db["retrievalDataIndex"]) = 1
    /\ ViolationsOf(3) = <<MissingMsg("pullIdx", "retrievalDataIndex", Addr(1))>>

\* The entries of the primary index the content pass has visited.
Visited ==
    IF pc = "content" THEN pos - 1
    ELSE IF ~ContentDone THEN 0
    ELSE IF fault.kind = "iter" /\ fault.idx = "retrievalDataIndex" THEN fault.at - 1
    ELSE Len(db["retrievalDataIndex"])

ContentMsgs ==
    SelectSeq(inconsistencies, LAMBDA m :
        m.fmt \in {"invalid sharky location for item %s err: %v",
                   "cannot read location from sharky %v"})

\* A message names an address.
Names(m, address) == "address" \in DOMAIN m /\ m.address = address

\* C2: of the primary records whose location decodes and whose blob is read,
\* exactly those valid under neither scheme have a corruption finding, one
\* each, naming the record's address; the others have none, and no
\* inconsistency.
CorruptionIffNeitherScheme ==
    LET q == db["retrievalDataIndex"]
        bad == Positions(q, LAMBDA j : j <= Visited /\ q[j].kind = "corrupt")
    IN  /\ corruptions = [n \in 1..Len(bad) |-> CorruptionMsg(Addr(q[bad[n]].of))]
        /\ \A j \in 1..Len(q) :
              q[j].kind \in {"cac", "soc", "corrupt"}
                  => Count(ContentMsgs, LAMBDA m : Names(m, Addr(q[j].of))) = 0
        /\ Len(ContentMsgs)
              = Len(Positions(q, LAMBDA j : j <= Visited /\ q[j].kind \in {"badloc", "readerr"}))

\* C2 witness: a finished audit of a single-owner chunk and a corrupt one,
\* with the one corruption finding.
CorruptionWitness ==
    /\ pc = "done" /\ Reported
    /\ Len(db["retrievalDataIndex"]) = 2
    /\ db["retrievalDataIndex"][1].kind = "soc"
    /\ db["retrievalDataIndex"][2].kind = "corrupt"
    /\ corruptions = <<CorruptionMsg(Addr(2))>>

\* The content pass processed entry j: it reported its location or read it.
Processed(j) ==
    LET e == db["retrievalDataIndex"][j]
    IN  IF e.kind = "badloc"
        THEN Count(inconsistencies, LAMBDA m : m = LocationMsg(Addr(e.of))) = 1
        ELSE Count(reads, LAMBDA l : l = ChunkLocation(e.of)) = 1

\* C6: a visited primary record whose location does not decode has exactly
\* one inconsistency naming its address, no corruption finding and no blob
\* read, and every record up to where the scan stands has been processed.
BadLocationReportedAndSkipped ==
    LET q == db["retrievalDataIndex"]
    IN  \A j \in 1..Visited :
           q[j].kind = "badloc" =>
              /\ Count(inconsistencies, LAMBDA m :
                     m.fmt = "invalid sharky location for item %s err: %v"
                     /\ Names(m, Addr(q[j].of))) = 1
              /\ Count(corruptions, LAMBDA m : Names(m, Addr(q[j].of))) = 0
              /\ Count(reads, LAMBDA l : l = ChunkLocation(q[j].of)) = 0
              /\ \A i \in 1..Visited : Processed(i)

\* C6 witness: a finished audit whose first primary record has a truncated
\* location and whose second is corrupt and reported so.
BadLocationWitness ==
    /\ pc = "done" /\ Reported
    /\ Len(db["retrievalDataIndex"]) = 2
    /\ db["retrievalDataIndex"][1].kind = "badloc"
    /\ inconsistencies = <<LocationMsg(Addr(1))>>
    /\ corruptions = <<CorruptionMsg(Addr(2))>>

\* C3: the counter check leaves exactly one inconsistency if gcSize +
\* reserveSize, summed over the naturals, exceeds the primary count, and
\* none otherwise.
CounterBoundExact ==
    (pc \in {"content", "report"} \/ (pc = "done" /\ Reported)) =>
        Count(inconsistencies, LAMBDA m : m.fmt = "gcSize+reserveSize(%d) > chunkCount(%d)")
            = IF SumExceeds(fields.gcSize, fields.reserveSize, Len(db["retrievalDataIndex"]))
              THEN 1 ELSE 0

\* C4: no step of the audit changes the indexes, the counters, the blobs or
\* the set of files of the blob-store directory.
AuditMutatesNothing ==
    [][files' = files /\ fields' = fields /\ db' = db /\ blobs' = blobs]_vars

\* C5: an audit that met an engine failure in one of its eight index scans
\* reports exactly one critical entry.
IterationFailureReported ==
    (pc = "done" /\ Reported /\ fault.kind = "iter") =>
        /\ Count(inconsistencies, LAMBDA m : m.fmt = "CRITICAL: failed checking %s index") = 1
        /\ Count(stdout, LAMBDA ln :
               /\ ln.fmt = "INCONSISTENCY: %s\n"
               /\ ln.v.fmt = "CRITICAL: failed checking %s index") = 1

\* C7: a visited primary record whose blob read fails has exactly one
\* inconsistency naming its address and no corruption finding, and is read
\* once.
ReadErrorNamesAddress ==
    LET q == db["retrievalDataIndex"]
    IN  \A j \in 1..Visited :
           q[j].kind = "readerr" =>
              /\ Count(ContentMsgs, LAMBDA m : Names(m, Addr(q[j].of))) = 1
              /\ Count(corruptions, LAMBDA m : Names(m, Addr(q[j].of))) = 0
              /\ Count(reads, LAMBDA l : l = ChunkLocation(q[j].of)) = 1

\* C8: when main has returned, the engine and the blob store were each
\* opened at most once and each one opened was closed exactly once.
OpenedOnceClosedOnce ==
    pc = "done" =>
        /\ shedOpened <= 1 /\ shedClosed = shedOpened
        /\ sharkyOpened <= 1 /\ sharkyClosed = sharkyOpened

\* C9: decoding a key or value shorter than the index's fixed header returns
\* a decode error: no panic, no record.
ShortDecodeReturnsError ==
    codecOp \in {"shortKey", "shortValue"} => (~codecOut.panic /\ codecOut.err)

\* C10: DecodeKey(EncodeKey(r)) is r restricted to the fields the index keys
\* on and DecodeValue(EncodeValue(r)) is r restricted to the fields the index
\* stores, every other field of the decoded record zero.
CodecRoundTrip ==
    /\ codecOp = "key" => codecOut = Decoded(Restrict(codecItem, KeyFields(codecIdx)))
    /\ codecOp = "value" => codecOut = Decoded(Restrict(codecItem, ValueFields(codecIdx)))

\* C10 witness: the value of the primary index decoded back, with a negative
\* store timestamp and a location.
CodecRoundTripWitness ==
    /\ codecOp = "value"
    /\ codecIdx = "retrievalDataIndex"
    /\ codecItem.StoreTimestamp < 0
    /\ codecItem.Location # <<>>
    /\ codecOut.item.Location = codecItem.Location
    /\ codecOut.item.Address = <<>>

====
